---- MODULE Spec2Model ----
(***************************************************************************)
(* ExecutionGuard (core/framework/runtime/execution_guard.py): one guard   *)
(* per execution holding four optional ceilings and three live counters.   *)
(*                                                                         *)
(* Optional[T] is modelled as a sequence: << >> is Python's None and <<v>> *)
(* is the value v.  Time is in milliseconds.  cost_tracker is a float: it  *)
(* is modelled in units of the smallest amount reported, with a mantissa   *)
(* of MantissaBits bits and the rounding of IEEE 754 addition.             *)
(***************************************************************************)
EXTENDS Integers, Sequences, FiniteSets

\* ------------------------------------------------------------------ bounds
\* Largest ceiling a configuration draws.
MaxLimit == 2
\* Caps on the counters and on the elapsed time (guards of the actions).
MaxSteps == 3
MaxTokens == 2
MaxCost == 2
MaxElapsed == 2
\* Largest amount one add_tokens / add_cost call reports.
MaxAmount == 2
\* Width of the mantissa of a float (53 in a Python float), and the largest
\* cost, in units, reported where the rounding is looked at.
MantissaBits == 3
MaxFloatCost == 10

\* ------------------------------------------------------------ Optional[T]
None == << >>
Some(v) == <<v>>
IsSet(o) == o # None
Val(o) == o[1]

VARIABLES
    execution_id,   \* self.execution_id
    config,         \* self.config : ExecutionLimitConfig
    start_time,     \* self.start_time
    step_count,     \* self.step_count
    token_count,    \* self.token_count
    cost_tracker,   \* self.cost_tracker
    clock,          \* what time.time() returns now, in ms
    call,           \* the most recent call: [op, args]
    ret,            \* what it returned (None, Some(result) or Some(stats))
    hist,           \* history: calls of increment_step, sums of the positive amounts reported
    prev,           \* what the call before returned, when it and this call are check_all_limits
    callers,        \* concurrent callers: their position inside a record operation
    engine,         \* the step driver: its position, the steps completed, its last result,
                    \* whether some step reported no token
    monitor         \* the monitor loop: its state, its last outcome, the side effects it caused

vars == <<execution_id, config, start_time, step_count, token_count, cost_tracker,
          clock, call, ret, prev, hist, callers, engine, monitor>>

guard_fields == <<execution_id, config, start_time, step_count, token_count, cost_tracker>>

\* ------------------------------------------------------------ construction
\* The ceilings a configuration may hold.  The dataclass validates nothing,
\* so a zero or negative ceiling is a configuration the program accepts.
StepLimitValues == {None, Some(-1), Some(0), Some(MaxLimit)}
LimitValues == {None, Some(0), Some(MaxLimit)}

ExecutionLimitConfig ==
    [max_steps : StepLimitValues, max_runtime_ms : LimitValues,
     max_tokens : LimitValues, max_cost_usd : LimitValues]

\* time.time() at construction (the origin of the clock is arbitrary).
ConstructionTime == 10

\* Each concurrent caller: idle, or between the read and the write of a "+=".
NumCallers == 2
CallsPerCaller == 2
Callers == 1..NumCallers

\* range(5) of the demo's step loop.
DemoSteps == 5

Init ==
    /\ execution_id = "test-execution"
    /\ config \in ExecutionLimitConfig
    /\ clock = ConstructionTime
    /\ start_time = clock
    /\ step_count = 0
    /\ token_count = 0
    /\ cost_tracker = 0
    /\ call = [op |-> "__init__", args |-> << >>]
    /\ ret = None
    /\ prev = None
    /\ hist = [steps |-> 0, tokens |-> 0, cost |-> 0]
    /\ callers = [c \in Callers |-> [pc |-> "idle", tmp |-> 0, left |-> CallsPerCaller]]
    /\ engine = [pc |-> "step", i |-> 0, completed |-> 0, result |-> None,
                 starved |-> FALSE]
    /\ monitor = [state |-> "Running", outcome |-> None,
                  cancellations |-> 0, notifications |-> << >>]

\* ------------------------------------------------------------------ checks
\* (time.time() - self.start_time) * 1000, with the clock read as `now`.
runtime_ms(now) == now - start_time

ExecutionGuardResult(should_terminate, reason, details) ==
    [should_terminate |-> should_terminate, reason |-> reason, details |-> details]

\* Mutant: the step ceiling compared with >=, like the other three.
check_step_limit_ge ==
    IF IsSet(config.max_steps) /\ step_count >= Val(config.max_steps)
    THEN Some(ExecutionGuardResult(TRUE, "STEP_LIMIT_EXCEEDED",
              [step_count |-> step_count, max_steps |-> Val(config.max_steps)]))
    ELSE None

check_step_limit ==
    IF IsSet(config.max_steps) /\ step_count > Val(config.max_steps)
    THEN Some(ExecutionGuardResult(TRUE, "STEP_LIMIT_EXCEEDED",
              [step_count |-> step_count, max_steps |-> Val(config.max_steps)]))
    ELSE None

\* Mutant: the runtime ceiling compared with >.
check_runtime_limit_gt(now) ==
    IF IsSet(config.max_runtime_ms) /\ runtime_ms(now) > Val(config.max_runtime_ms)
    THEN Some(ExecutionGuardResult(TRUE, "TIME_LIMIT_EXCEEDED",
              [current_runtime_ms |-> runtime_ms(now),
               max_runtime_ms |-> Val(config.max_runtime_ms)]))
    ELSE None

check_runtime_limit(now) ==
    IF IsSet(config.max_runtime_ms) /\ runtime_ms(now) >= Val(config.max_runtime_ms)
    THEN Some(ExecutionGuardResult(TRUE, "TIME_LIMIT_EXCEEDED",
              [current_runtime_ms |-> runtime_ms(now),
               max_runtime_ms |-> Val(config.max_runtime_ms)]))
    ELSE None

\* Mutant: the token ceiling compared with >.
check_token_limit_gt ==
    IF IsSet(config.max_tokens) /\ token_count > Val(config.max_tokens)
    THEN Some(ExecutionGuardResult(TRUE, "TOKEN_LIMIT_EXCEEDED",
              [token_count |-> token_count, max_tokens |-> Val(config.max_tokens)]))
    ELSE None

check_token_limit ==
    IF IsSet(config.max_tokens) /\ token_count >= Val(config.max_tokens)
    THEN Some(ExecutionGuardResult(TRUE, "TOKEN_LIMIT_EXCEEDED",
              [token_count |-> token_count, max_tokens |-> Val(config.max_tokens)]))
    ELSE None

\* Mutant: an unset cost ceiling read as zero ("max_cost_usd or 0").
check_cost_limit_unset_as_zero ==
    IF cost_tracker >= (IF IsSet(config.max_cost_usd) THEN Val(config.max_cost_usd) ELSE 0)
    THEN Some(ExecutionGuardResult(TRUE, "COST_LIMIT_EXCEEDED",
              [current_cost_usd |-> cost_tracker,
               max_cost_usd |-> config.max_cost_usd]))
    ELSE None

\* Mutant: the cost ceiling compared with >.
check_cost_limit_gt ==
    IF IsSet(config.max_cost_usd) /\ cost_tracker > Val(config.max_cost_usd)
    THEN Some(ExecutionGuardResult(TRUE, "COST_LIMIT_EXCEEDED",
              [current_cost_usd |-> cost_tracker,
               max_cost_usd |-> Val(config.max_cost_usd)]))
    ELSE None

check_cost_limit ==
    IF IsSet(config.max_cost_usd) /\ cost_tracker >= Val(config.max_cost_usd)
    THEN Some(ExecutionGuardResult(TRUE, "COST_LIMIT_EXCEEDED",
              [current_cost_usd |-> cost_tracker,
               max_cost_usd |-> Val(config.max_cost_usd)]))
    ELSE None

\* Mutant: the list built with the runtime check ahead of the step check.
checks_runtime_first(now) ==
    <<check_runtime_limit(now), check_step_limit, check_token_limit, check_cost_limit>>

\* Mutant: the list built without the step check.
checks_without_step(now) ==
    <<check_runtime_limit(now), check_token_limit, check_cost_limit>>

\* The list of the four results, in the order the code builds it.  The clock
\* is read once in check_runtime_limit (now) and again for the snapshot (now2).
checks(now) ==
    <<check_step_limit, check_runtime_limit(now), check_token_limit, check_cost_limit>>

\* "for check_result in checks: if check_result is not None: return check_result"
RECURSIVE first_result(_, _)
first_result(cs, i) ==
    IF i > Len(cs) THEN None
    ELSE IF cs[i] # None THEN cs[i]
    ELSE first_result(cs, i + 1)

\* Mutant: the snapshot with step_count copied into token_count.
check_all_limits_tokens_from_steps(now, now2) ==
    LET check_result == first_result(checks(now), 1)
    IN  IF check_result # None
        THEN Val(check_result)
        ELSE ExecutionGuardResult(FALSE, "WITHIN_LIMITS",
                 [step_count |-> step_count, runtime_ms |-> runtime_ms(now2),
                  token_count |-> step_count, cost_usd |-> cost_tracker])

check_all_limits(now, now2) ==
    LET check_result == first_result(checks(now), 1)
    IN  IF check_result # None
        THEN Val(check_result)
        ELSE ExecutionGuardResult(FALSE, "WITHIN_LIMITS",
                 [step_count |-> step_count, runtime_ms |-> runtime_ms(now2),
                  token_count |-> token_count, cost_usd |-> cost_tracker])

\* Mutant: unset ceilings reported as zero ("self.config.max_steps or 0").
get_stats_unset_as_zero(now) ==
    [execution_id |-> execution_id,
     step_count |-> step_count,
     runtime_ms |-> runtime_ms(now),
     token_count |-> token_count,
     cost_usd |-> cost_tracker,
     limits |-> [max_steps |-> IF IsSet(config.max_steps) THEN config.max_steps ELSE Some(0),
                 max_runtime_ms |-> IF IsSet(config.max_runtime_ms)
                                    THEN config.max_runtime_ms ELSE Some(0),
                 max_tokens |-> IF IsSet(config.max_tokens) THEN config.max_tokens ELSE Some(0),
                 max_cost_usd |-> IF IsSet(config.max_cost_usd)
                                  THEN config.max_cost_usd ELSE Some(0)]]

get_stats(now) ==
    [execution_id |-> execution_id,
     step_count |-> step_count,
     runtime_ms |-> runtime_ms(now),
     token_count |-> token_count,
     cost_usd |-> cost_tracker,
     limits |-> [max_steps |-> config.max_steps,
                 max_runtime_ms |-> config.max_runtime_ms,
                 max_tokens |-> config.max_tokens,
                 max_cost_usd |-> config.max_cost_usd]]

\* ----------------------------------------------------------------- actions
\* A call returns.  Of the call before it the model keeps the result only when
\* both are check_all_limits, so that two successive aggregate checks can be
\* compared.
Called(op, args, result) ==
    /\ call' = [op |-> op, args |-> args]
    /\ ret' = result
    /\ prev' = IF op = "check_all_limits" /\ call.op = "check_all_limits" THEN ret ELSE None

\* The clock readings a handler that starts now may still see before it returns.
LaterReadings == {t \in {clock, clock + 1} : runtime_ms(t) <= MaxElapsed}

increment_step ==
    /\ step_count' = step_count + 1
    /\ hist' = [hist EXCEPT !.steps = @ + 1]
    /\ UNCHANGED <<execution_id, config, start_time, token_count, cost_tracker>>

\* Mutant: add_tokens without its "if token_count > 0".
add_tokens_unguarded(n) ==
    /\ token_count' = token_count + n
    /\ hist' = [hist EXCEPT !.tokens = IF n > 0 THEN @ + n ELSE @]
    /\ UNCHANGED <<execution_id, config, start_time, step_count, cost_tracker>>

add_tokens(n) ==
    /\ token_count' = IF n > 0 THEN token_count + n ELSE token_count
    /\ hist' = [hist EXCEPT !.tokens = IF n > 0 THEN @ + n ELSE @]
    /\ UNCHANGED <<execution_id, config, start_time, step_count, cost_tracker>>

\* ---------------------------------------------------------- float addition
RECURSIVE Pow2(_)
Pow2(n) == IF n = 0 THEN 1 ELSE 2 * Pow2(n - 1)

\* The exponent of x: the least e for which x / 2^e fits the mantissa.
RECURSIVE float_exponent(_, _)
float_exponent(x, e) ==
    IF x \div Pow2(e) < Pow2(MantissaBits) THEN e ELSE float_exponent(x, e + 1)

\* The float nearest to the number x >= 0; of two equally near, the one whose
\* mantissa is even (round-half-to-even, the rounding of every float "+").
RoundFloat(x) ==
    LET e == float_exponent(x, 0)
        q == x \div Pow2(e)
        r == x % Pow2(e)
    IN  IF e = 0 THEN x
        ELSE IF 2 * r > Pow2(e) \/ (2 * r = Pow2(e) /\ q % 2 = 1)
             THEN (q + 1) * Pow2(e)
             ELSE q * Pow2(e)

\* x + y on floats: the exact sum, rounded.
float_add(x, y) == RoundFloat(x + y)

\* Mutant: add_cost without its "if cost_usd > 0".
add_cost_unguarded(a) ==
    /\ cost_tracker' = cost_tracker + a
    /\ hist' = [hist EXCEPT !.cost = IF a > 0 THEN @ + a ELSE @]
    /\ UNCHANGED <<execution_id, config, start_time, step_count, token_count>>

\* Mutant: add_cost with "=" in place of "+=".
add_cost_overwrites(a) ==
    /\ cost_tracker' = IF a > 0 THEN a ELSE cost_tracker
    /\ hist' = [hist EXCEPT !.cost = IF a > 0 THEN @ + a ELSE @]
    /\ UNCHANGED <<execution_id, config, start_time, step_count, token_count>>

add_cost(a) ==
    /\ cost_tracker' = IF a > 0 THEN float_add(cost_tracker, a) ELSE cost_tracker
    /\ hist' = [hist EXCEPT !.cost = IF a > 0 THEN @ + a ELSE @]
    /\ UNCHANGED <<execution_id, config, start_time, step_count, token_count>>

Amounts == -1..MaxAmount

IncrementStep ==
    /\ step_count < MaxSteps
    /\ increment_step
    /\ Called("increment_step", << >>, None)
    /\ UNCHANGED <<clock, callers, engine, monitor>>

AddTokens(n) ==
    /\ token_count + n <= MaxTokens
    /\ add_tokens(n)
    /\ Called("add_tokens", <<n>>, None)
    /\ UNCHANGED <<clock, callers, engine, monitor>>

AddCost(a) ==
    /\ cost_tracker + a <= MaxCost
    /\ add_cost(a)
    /\ Called("add_cost", <<a>>, None)
    /\ UNCHANGED <<clock, callers, engine, monitor>>

CheckStepLimit ==
    /\ Called("check_step_limit", << >>, check_step_limit)
    /\ UNCHANGED <<guard_fields, hist, clock, callers, engine, monitor>>

CheckRuntimeLimit ==
    /\ Called("check_runtime_limit", << >>, check_runtime_limit(clock))
    /\ UNCHANGED <<guard_fields, hist, clock, callers, engine, monitor>>

CheckTokenLimit ==
    /\ Called("check_token_limit", << >>, check_token_limit)
    /\ UNCHANGED <<guard_fields, hist, clock, callers, engine, monitor>>

CheckCostLimit ==
    /\ Called("check_cost_limit", << >>, check_cost_limit)
    /\ UNCHANGED <<guard_fields, hist, clock, callers, engine, monitor>>

\* Mutant: an aggregate check that counts itself as a step.
CheckAllLimits_counts_step ==
    /\ \E now2 \in LaterReadings :
          /\ Called("check_all_limits", << >>, Some(check_all_limits(clock, now2)))
          /\ clock' = now2
    /\ step_count' = step_count + 1
    /\ UNCHANGED <<execution_id, config, start_time, token_count, cost_tracker>>
    /\ UNCHANGED <<hist, callers, engine, monitor>>

CheckAllLimits ==
    /\ \E now2 \in LaterReadings :
          /\ Called("check_all_limits", << >>, Some(check_all_limits(clock, now2)))
          /\ clock' = now2
    /\ UNCHANGED <<guard_fields, hist, callers, engine, monitor>>

GetStats ==
    /\ Called("get_stats", << >>, Some(get_stats(clock)))
    /\ UNCHANGED <<guard_fields, hist, clock, callers, engine, monitor>>

\* Time passes between two calls (time.sleep in the tests and the demo).
Sleep ==
    /\ runtime_ms(clock) < MaxElapsed
    /\ clock' = clock + 1
    /\ Called("sleep", << >>, None)
    /\ UNCHANGED <<guard_fields, hist, callers, engine, monitor>>

Next ==
    \/ IncrementStep
    \/ \E n \in Amounts : AddTokens(n)
    \/ \E a \in Amounts : AddCost(a)
    \/ CheckStepLimit
    \/ CheckRuntimeLimit
    \/ CheckTokenLimit
    \/ CheckCostLimit
    \/ CheckAllLimits
    \/ GetStats
    \/ Sleep

Spec == Init /\ [][Next]_vars

\* ------------------------------------------------------- the step driver
\* The loop of the demo: "for i in range(5): guard.increment_step();
\* result = guard.check_all_limits(); if result.should_terminate: break".
\* increment_step is called once per completed step, and the guard is asked
\* before the next step is started.
EngineStep ==
    /\ engine.pc = "step"
    /\ engine.i < DemoSteps
    /\ increment_step
    /\ Called("increment_step", << >>, None)
    /\ engine' = [engine EXCEPT !.pc = "check", !.completed = @ + 1]
    /\ UNCHANGED <<clock, callers, monitor>>

\* Mutant: the loop without its "if result.should_terminate: break".
EngineCheck_no_break ==
    /\ engine.pc = "check"
    /\ \E now2 \in LaterReadings :
          /\ Called("check_all_limits", << >>, Some(check_all_limits(clock, now2)))
          /\ clock' = now2
    /\ engine' = [engine EXCEPT !.pc = "step", !.i = @ + 1, !.result = ret']
    /\ UNCHANGED <<guard_fields, hist, callers, monitor>>

EngineCheck ==
    /\ engine.pc = "check"
    /\ \E now2 \in LaterReadings :
          LET result == check_all_limits(clock, now2)
          IN  /\ Called("check_all_limits", << >>, Some(result))
              /\ clock' = now2
              /\ engine' = IF result.should_terminate
                           THEN [engine EXCEPT !.pc = "fired", !.result = Some(result)]
                           ELSE [engine EXCEPT !.pc = "step", !.i = @ + 1,
                                               !.result = Some(result)]
    /\ UNCHANGED <<guard_fields, hist, callers, monitor>>

EngineLoopEnd ==
    /\ engine.pc = "step"
    /\ engine.i = DemoSteps
    /\ engine' = [engine EXCEPT !.pc = "done"]
    /\ UNCHANGED <<guard_fields, hist, clock, call, ret, prev, callers, monitor>>

\* Usage is reported and time passes while the driver runs.
NextEngine ==
    \/ EngineStep
    \/ EngineCheck
    \/ EngineLoopEnd
    \/ \E n \in Amounts : AddTokens(n)
    \/ \E a \in Amounts : AddCost(a)
    \/ Sleep

SpecEngine == Init /\ [][NextEngine]_vars

\* ---------------------------------------------------- a runaway execution
\* The same loop without an end ("while True" in place of "for i in
\* range(5)"), each step reporting the tokens it used (add_tokens(0) is a
\* step that reports none): increment_step, add_tokens(n), check_all_limits,
\* break on should_terminate.  The driver runs whenever it can.
RunawayStep ==
    /\ engine.pc = "step"
    /\ step_count < MaxSteps
    /\ increment_step
    /\ Called("increment_step", << >>, None)
    /\ engine' = [engine EXCEPT !.pc = "report", !.completed = @ + 1]
    /\ UNCHANGED <<clock, callers, monitor>>

RunawayReport ==
    /\ engine.pc = "report"
    /\ \E n \in 0..MaxAmount :
          /\ add_tokens(n)
          /\ Called("add_tokens", <<n>>, None)
          /\ engine' = [engine EXCEPT !.pc = "check",
                                      !.starved = @ \/ n = 0]
    /\ UNCHANGED <<clock, callers, monitor>>

NextRunaway ==
    \/ RunawayStep
    \/ RunawayReport
    \/ EngineCheck
    \/ Sleep

SpecRunaway ==
    /\ Init
    /\ [][NextRunaway]_vars
    /\ WF_vars(RunawayStep)
    /\ WF_vars(RunawayReport)
    /\ WF_vars(EngineCheck)

\* ----------------------------------------------------- concurrent callers
\* Callers on several threads.  "self.x += n" is a read of self.x, an
\* addition and a write of self.x; nothing in the class makes the three one
\* step, so another caller may run between the read and the write.
RecordOps == {"increment_step", "add_tokens", "add_cost"}

counter(op) ==
    CASE op = "increment_step" -> step_count
      [] op = "add_tokens" -> token_count
      [] op = "add_cost" -> cost_tracker

\* The caller enters increment_step(), add_tokens(1) or add_cost(1) and
\* reads the counter.
CallerRead(c, op) ==
    /\ callers[c].pc = "idle"
    /\ callers[c].left > 0
    /\ callers' = [callers EXCEPT ![c].pc = op, ![c].tmp = counter(op) + 1]
    /\ UNCHANGED <<guard_fields, hist, clock, call, ret, prev, engine, monitor>>

\* The caller writes the sum back and returns.
CallerWrite(c) ==
    /\ callers[c].pc \in RecordOps
    /\ step_count' = IF callers[c].pc = "increment_step" THEN callers[c].tmp ELSE step_count
    /\ token_count' = IF callers[c].pc = "add_tokens" THEN callers[c].tmp ELSE token_count
    /\ cost_tracker' = IF callers[c].pc = "add_cost" THEN callers[c].tmp ELSE cost_tracker
    /\ hist' = [steps |-> hist.steps + (IF callers[c].pc = "increment_step" THEN 1 ELSE 0),
                tokens |-> hist.tokens + (IF callers[c].pc = "add_tokens" THEN 1 ELSE 0),
                cost |-> hist.cost + (IF callers[c].pc = "add_cost" THEN 1 ELSE 0)]
    /\ Called(callers[c].pc, IF callers[c].pc = "increment_step" THEN << >> ELSE <<1>>, None)
    /\ callers' = [callers EXCEPT ![c].pc = "idle", ![c].tmp = 0, ![c].left = @ - 1]
    /\ UNCHANGED <<execution_id, config, start_time, clock, engine, monitor>>

NextConcurrent ==
    \/ \E c \in Callers, op \in RecordOps : CallerRead(c, op)
    \/ \E c \in Callers : CallerWrite(c)
    \/ CheckAllLimits

SpecConcurrent == Init /\ [][NextConcurrent]_vars

\* --------------------------------------------------------- the monitor loop
\* The background task that polls the guard (its code is not among the source
\* files; it is written here from its specification).  On every tick it calls
\* check_all_limits; on a terminating outcome it requests the cancellation of
\* the execution, emits the termination notification and stops polling.  The
\* engine cancels the loop when the execution ends.
\* States: Running -> Running (tick, no trip) | Terminating (tick, trip) |
\* Stopped (external cancel).
Notification(result) ==
    [kind |-> "execution_terminated", execution_id |-> execution_id,
     reason |-> result.reason, details |-> result.details]

\* Mutant: a loop that fires and goes on polling.
MonitorTick_keeps_polling ==
    /\ monitor.state = "Running"
    /\ \E now2 \in LaterReadings :
          LET result == check_all_limits(clock, now2)
          IN  /\ Called("check_all_limits", << >>, Some(result))
              /\ clock' = now2
              /\ monitor' = IF result.should_terminate
                            THEN [monitor EXCEPT
                                      !.outcome = Some(result),
                                      !.cancellations = IF @ < 2 THEN @ + 1 ELSE @,
                                      !.notifications = IF Len(@) < 2
                                                        THEN Append(@, Notification(result))
                                                        ELSE @]
                            ELSE monitor
    /\ UNCHANGED <<guard_fields, hist, callers, engine>>

MonitorTick ==
    /\ monitor.state = "Running"
    /\ \E now2 \in LaterReadings :
          LET result == check_all_limits(clock, now2)
          IN  /\ Called("check_all_limits", << >>, Some(result))
              /\ clock' = now2
              /\ monitor' = IF result.should_terminate
                            THEN [state |-> "Terminating",
                                  outcome |-> Some(result),
                                  cancellations |-> monitor.cancellations + 1,
                                  notifications |-> Append(monitor.notifications,
                                                           Notification(result))]
                            ELSE monitor
    /\ UNCHANGED <<guard_fields, hist, callers, engine>>

\* Mutant: a loop that announces a termination when it is cancelled.
MonitorCancel_notifies ==
    /\ monitor' = IF monitor.state = "Running"
                  THEN [monitor EXCEPT
                            !.state = "Stopped",
                            !.notifications = Append(@,
                                [kind |-> "execution_terminated",
                                 execution_id |-> execution_id,
                                 reason |-> "CANCELLED", details |-> << >>])]
                  ELSE monitor
    /\ Called("cancel_monitor", << >>, None)
    /\ UNCHANGED <<guard_fields, hist, clock, callers, engine>>

\* The engine cancels the loop (the execution has ended, for whatever reason).
\* Cancelling a loop that is no longer running does nothing.
MonitorCancel ==
    /\ monitor' = IF monitor.state = "Running"
                  THEN [monitor EXCEPT !.state = "Stopped"]
                  ELSE monitor
    /\ Called("cancel_monitor", << >>, None)
    /\ UNCHANGED <<guard_fields, hist, clock, callers, engine>>

\* Usage is reported and time passes while the loop polls, and after it stopped.
NextMonitor ==
    \/ MonitorTick
    \/ MonitorCancel
    \/ IncrementStep
    \/ \E n \in Amounts : AddTokens(n)
    \/ \E a \in Amounts : AddCost(a)
    \/ Sleep

SpecMonitor == Init /\ [][NextMonitor]_vars

\* ------------------------------------------------------- large cost sums
\* A guard with only a cost ceiling, and costs that grow past the point where
\* a sum of two floats is no longer a float.
FloatCeilings == {Some(c) : c \in {x \in 1..MaxFloatCost : RoundFloat(x) = x}}

InitFloat ==
    /\ execution_id = "test-execution"
    /\ config \in [max_steps : {None}, max_runtime_ms : {None},
                    max_tokens : {None}, max_cost_usd : FloatCeilings]
    /\ clock = ConstructionTime
    /\ start_time = clock
    /\ step_count = 0
    /\ token_count = 0
    /\ cost_tracker = 0
    /\ call = [op |-> "__init__", args |-> << >>]
    /\ ret = None
    /\ prev = None
    /\ hist = [steps |-> 0, tokens |-> 0, cost |-> 0]
    /\ callers = [c \in Callers |-> [pc |-> "idle", tmp |-> 0, left |-> CallsPerCaller]]
    /\ engine = [pc |-> "step", i |-> 0, completed |-> 0, result |-> None,
                 starved |-> FALSE]
    /\ monitor = [state |-> "Running", outcome |-> None,
                  cancellations |-> 0, notifications |-> << >>]

AddCostLarge(a) ==
    /\ hist.cost + a <= MaxFloatCost
    /\ add_cost(a)
    /\ Called("add_cost", <<a>>, None)
    /\ UNCHANGED <<clock, callers, engine, monitor>>

NextFloat ==
    \/ IncrementStep
    \/ \E n \in Amounts : AddTokens(n)
    \/ \E a \in 1..MaxAmount : AddCostLarge(a)
    \/ CheckCostLimit

SpecFloat == InitFloat /\ [][NextFloat]_vars

\* ------------------------------------------------------ the system clock
\* start_time and every later reading come from time.time(), the system's
\* wall clock, which the operating system may set forward or back (an NTP
\* step, an administrator) at any moment between two readings.
AdjustedReadings == (ConstructionTime - MaxElapsed)..(ConstructionTime + MaxElapsed)

ClockAdjust ==
    /\ \E t \in AdjustedReadings \ {clock} : clock' = t
    /\ UNCHANGED <<guard_fields, hist, call, ret, prev, callers, engine, monitor>>

NextClock ==
    \/ IncrementStep
    \/ CheckRuntimeLimit
    \/ CheckAllLimits
    \/ GetStats
    \/ Sleep
    \/ ClockAdjust

SpecClock == Init /\ [][NextClock]_vars

\* ------------------------------------------------- what the claims speak of
\* The ceilings as the claims state them, written out on the state.
StepExceeded == IsSet(config.max_steps) /\ step_count > Val(config.max_steps)
RuntimeExceeded == IsSet(config.max_runtime_ms) /\ clock - start_time >= Val(config.max_runtime_ms)
TokenExceeded == IsSet(config.max_tokens) /\ token_count >= Val(config.max_tokens)
CostExceeded == IsSet(config.max_cost_usd) /\ cost_tracker >= Val(config.max_cost_usd)

Trips(r, reason) ==
    /\ r # None
    /\ Val(r).should_terminate = TRUE
    /\ Val(r).reason = reason

\* C1: with max_steps = k, check_step_limit returns None after at most k
\* increment_step calls, and after the (k+1)-th it returns a terminating
\* outcome with reason STEP_LIMIT_EXCEEDED and details.step_count = k+1; it
\* trips exactly when max_steps is set and step_count > max_steps.
C1_StepLimit ==
    call.op = "check_step_limit" =>
        /\ (ret # None) <=> StepExceeded
        /\ ret # None => Trips(ret, "STEP_LIMIT_EXCEEDED")
        /\ IsSet(config.max_steps) =>
              LET k == Val(config.max_steps)
              IN  /\ hist.steps <= k => ret = None
                  /\ hist.steps = k + 1 =>
                        /\ Trips(ret, "STEP_LIMIT_EXCEEDED")
                        /\ Val(ret).details.step_count = k + 1

C1_Witness ==
    /\ call.op = "check_step_limit"
    /\ config.max_steps = Some(MaxLimit)
    /\ hist.steps = MaxLimit + 1
    /\ Trips(ret, "STEP_LIMIT_EXCEEDED")

\* C2: every check_all_limits call terminates exactly when one of the four
\* ceilings is exceeded at the time of the call, and reports the reason of
\* the first exceeded one in the order step, runtime, token, cost; with all
\* four exceeded the reason is STEP_LIMIT_EXCEEDED.
C2_PriorityOrder ==
    [][CheckAllLimits =>
         LET r == Val(ret')
         IN  /\ r.should_terminate <=>
                  (StepExceeded \/ RuntimeExceeded \/ TokenExceeded \/ CostExceeded)
             /\ r.reason =
                  IF StepExceeded THEN "STEP_LIMIT_EXCEEDED"
                  ELSE IF RuntimeExceeded THEN "TIME_LIMIT_EXCEEDED"
                  ELSE IF TokenExceeded THEN "TOKEN_LIMIT_EXCEEDED"
                  ELSE IF CostExceeded THEN "COST_LIMIT_EXCEEDED"
                  ELSE "WITHIN_LIMITS"]_vars

C2_Witness ==
    /\ call.op = "check_all_limits"
    /\ StepExceeded /\ RuntimeExceeded /\ TokenExceeded /\ CostExceeded
    /\ step_count = MaxLimit + 1
    /\ Trips(ret, "STEP_LIMIT_EXCEEDED")

\* C5: with max_tokens = t, check_token_limit returns None while the tokens
\* reported so far sum to at most t-1, and returns a terminating outcome with
\* reason TOKEN_LIMIT_EXCEEDED once they reach or exceed t.
C5_TokenLimit ==
    (call.op = "check_token_limit" /\ IsSet(config.max_tokens)) =>
        LET t == Val(config.max_tokens)
        IN  /\ hist.tokens <= t - 1 => ret = None
            /\ hist.tokens >= t => Trips(ret, "TOKEN_LIMIT_EXCEEDED")
            /\ ret # None => Val(ret).details.token_count = hist.tokens

C5_Witness ==
    /\ call.op = "check_token_limit"
    /\ config.max_tokens = Some(MaxLimit)
    /\ hist.tokens = MaxLimit
    /\ Trips(ret, "TOKEN_LIMIT_EXCEEDED")

\* C6: with max_runtime_ms = d, check_runtime_limit returns None when the time
\* elapsed since construction is below d and a terminating outcome with reason
\* TIME_LIMIT_EXCEEDED when it is d or more, whatever the counters hold.
C6_RuntimeLimit ==
    (call.op = "check_runtime_limit" /\ IsSet(config.max_runtime_ms)) =>
        LET d == Val(config.max_runtime_ms)
        IN  /\ clock - start_time < d => ret = None
            /\ clock - start_time >= d => Trips(ret, "TIME_LIMIT_EXCEEDED")

C6_Witness ==
    /\ call.op = "check_runtime_limit"
    /\ config.max_runtime_ms = Some(MaxLimit)
    /\ clock - start_time = MaxLimit
    /\ step_count = 0 /\ token_count = 0 /\ cost_tracker = 0
    /\ Trips(ret, "TIME_LIMIT_EXCEEDED")

\* C7: with max_cost_usd = c, check_cost_limit returns None while the cost
\* reported so far is below c and a terminating outcome with reason
\* COST_LIMIT_EXCEEDED once it is c or more.
C7_CostLimit ==
    (call.op = "check_cost_limit" /\ IsSet(config.max_cost_usd)) =>
        LET c == Val(config.max_cost_usd)
        IN  /\ hist.cost < c => ret = None
            /\ hist.cost >= c => Trips(ret, "COST_LIMIT_EXCEEDED")
            /\ ret # None => Val(ret).details.current_cost_usd = hist.cost

C7_Witness ==
    /\ call.op = "check_cost_limit"
    /\ config.max_cost_usd = Some(MaxLimit)
    /\ hist.cost = MaxLimit
    /\ Trips(ret, "COST_LIMIT_EXCEEDED")

\* C8: a check whose ceiling is unset returns None whatever the usage, and
\* check_all_limits never reports the reason of an unset ceiling; with all
\* four unset it returns should_terminate = FALSE and WITHIN_LIMITS.
C8_UnboundedByDefault ==
    /\ (call.op = "check_step_limit" /\ ~IsSet(config.max_steps)) => ret = None
    /\ (call.op = "check_runtime_limit" /\ ~IsSet(config.max_runtime_ms)) => ret = None
    /\ (call.op = "check_token_limit" /\ ~IsSet(config.max_tokens)) => ret = None
    /\ (call.op = "check_cost_limit" /\ ~IsSet(config.max_cost_usd)) => ret = None
    /\ call.op = "check_all_limits" =>
          /\ ~IsSet(config.max_steps) => Val(ret).reason # "STEP_LIMIT_EXCEEDED"
          /\ ~IsSet(config.max_runtime_ms) => Val(ret).reason # "TIME_LIMIT_EXCEEDED"
          /\ ~IsSet(config.max_tokens) => Val(ret).reason # "TOKEN_LIMIT_EXCEEDED"
          /\ ~IsSet(config.max_cost_usd) => Val(ret).reason # "COST_LIMIT_EXCEEDED"
          /\ (/\ ~IsSet(config.max_steps) /\ ~IsSet(config.max_runtime_ms)
              /\ ~IsSet(config.max_tokens) /\ ~IsSet(config.max_cost_usd)) =>
                 /\ Val(ret).should_terminate = FALSE
                 /\ Val(ret).reason = "WITHIN_LIMITS"

C8_Witness ==
    /\ call.op = "check_all_limits"
    /\ config = [max_steps |-> None, max_runtime_ms |-> None,
                 max_tokens |-> None, max_cost_usd |-> None]
    /\ step_count = MaxSteps /\ token_count = MaxTokens /\ cost_tracker = MaxCost
    /\ clock - start_time = MaxElapsed
    /\ Val(ret).reason = "WITHIN_LIMITS"

\* C9: the three counters are never negative and no step of the guard,
\* whatever its argument, lowers any of them.
C9_CountersNeverDecrease ==
    /\ [](step_count >= 0 /\ token_count >= 0 /\ cost_tracker >= 0)
    /\ [][/\ step_count' >= step_count
          /\ token_count' >= token_count
          /\ cost_tracker' >= cost_tracker]_vars

C9_Witness ==
    /\ call.op = "add_tokens"
    /\ call.args[1] < 0
    /\ token_count > 0 /\ step_count > 0 /\ cost_tracker > 0

\* C10: add_tokens(n) with n <= 0 and add_cost(a) with a <= 0 return normally
\* and change no field of the guard, so every check answers after the call
\* what it answered before it.
C10_NonPositiveIsNoOp ==
    [][(call'.op \in {"add_tokens", "add_cost"} /\ call'.args[1] <= 0) =>
         /\ UNCHANGED guard_fields
         /\ UNCHANGED clock
         /\ ret' = None
         /\ check_step_limit' = check_step_limit
         /\ check_runtime_limit(clock)' = check_runtime_limit(clock)
         /\ check_token_limit' = check_token_limit
         /\ check_cost_limit' = check_cost_limit
         /\ check_all_limits(clock, clock)' = check_all_limits(clock, clock)]_vars

C10_Witness ==
    /\ call.op = "add_cost"
    /\ call.args[1] <= 0
    /\ cost_tracker > 0 /\ token_count > 0
    /\ CostExceeded

Max(a, b) == IF a >= b THEN a ELSE b

\* C3 (as amended): under the driver that calls increment_step once per
\* completed step and asks the guard before the next step, a guard with
\* max_steps = k lets k+1 steps complete (one step when k is negative): the
\* step limit stops the run after exactly that many steps and never earlier,
\* and no further step is started.
C3_StepsAllowed ==
    IsSet(config.max_steps) =>
        LET k == Val(config.max_steps)
        IN  /\ engine.completed <= Max(k, 0) + 1
            /\ (engine.pc = "fired" /\ Val(engine.result).reason = "STEP_LIMIT_EXCEEDED") =>
                  engine.completed = Max(k, 0) + 1
            /\ (engine.pc = "step" /\ engine.i > 0) => engine.completed <= Max(k, 0)

C3_Witness ==
    /\ config.max_steps = Some(MaxLimit)
    /\ engine.pc = "fired"
    /\ Val(engine.result).reason = "STEP_LIMIT_EXCEEDED"
    /\ engine.completed = MaxLimit + 1

\* C3 (as stated): with a valid max_steps = k the number of completed steps
\* never exceeds k.
C3_AtMostMaxStepsCompleted ==
    (IsSet(config.max_steps) /\ Val(config.max_steps) >= 1) =>
        engine.completed <= Val(config.max_steps)

\* C4: NumCallers concurrent callers that each call add_tokens(1)
\* CallsPerCaller times leave, once all have returned, token_count =
\* NumCallers * CallsPerCaller: no update is lost.
C4_NoLostUpdates ==
    (/\ \A c \in Callers : callers[c].pc = "idle" /\ callers[c].left = 0
     /\ hist.tokens = NumCallers * CallsPerCaller) =>
        token_count = NumCallers * CallsPerCaller

\* A configuration is valid when no ceiling is negative and max_steps and
\* max_runtime_ms, where set, are positive.
ValidConfig ==
    /\ IsSet(config.max_steps) => Val(config.max_steps) > 0
    /\ IsSet(config.max_runtime_ms) => Val(config.max_runtime_ms) > 0
    /\ IsSet(config.max_tokens) => Val(config.max_tokens) >= 0
    /\ IsSet(config.max_cost_usd) => Val(config.max_cost_usd) >= 0

CheckOps == {"check_step_limit", "check_runtime_limit", "check_token_limit",
             "check_cost_limit", "check_all_limits"}

\* C11: a configuration with a negative ceiling, or with max_steps or
\* max_runtime_ms not positive, is rejected at construction: no guard whose
\* configuration is invalid ever has a check evaluated on it.
C11_InvalidConfigNeverChecked ==
    call.op \in CheckOps => ValidConfig

\* C12: the elapsed time a guard reads never decreases from one read to the
\* next, whatever happens to the system clock in between: on a guard with a
\* valid configuration a check_runtime_limit that follows one that tripped
\* trips too, and reports at least the elapsed time the earlier one reported.
C12_RuntimeTripStays ==
    [][(ValidConfig /\ call.op = "check_runtime_limit" /\ ret # None /\ CheckRuntimeLimit) =>
          /\ Trips(ret', "TIME_LIMIT_EXCEEDED")
          /\ Val(ret').details.current_runtime_ms >= Val(ret).details.current_runtime_ms]_vars

\* C13 (as amended): two successive check_all_limits calls with no counter
\* mutation between them differ in should_terminate or reason only when one of
\* the two is TIME_LIMIT_EXCEEDED, and never when max_runtime_ms is unset; a
\* WITHIN_LIMITS result is repeated as WITHIN_LIMITS, with the same counters
\* in its details, unless the later call reads an elapsed time that has
\* reached max_runtime_ms.
C13_SuccessiveChecksAgreeUpToRuntime ==
    (call.op = "check_all_limits" /\ prev # None) =>
        LET a == Val(prev)
            b == Val(ret)
        IN  /\ (a.reason # b.reason \/ a.should_terminate # b.should_terminate) =>
                  /\ IsSet(config.max_runtime_ms)
                  /\ "TIME_LIMIT_EXCEEDED" \in {a.reason, b.reason}
            /\ a.reason = "WITHIN_LIMITS" =>
                  \/ /\ b.reason = "WITHIN_LIMITS"
                     /\ b.should_terminate = FALSE
                     /\ b.details.step_count = a.details.step_count
                     /\ b.details.token_count = a.details.token_count
                     /\ b.details.cost_usd = a.details.cost_usd
                  \/ /\ Trips(ret, "TIME_LIMIT_EXCEEDED")
                     /\ b.details.current_runtime_ms >= Val(config.max_runtime_ms)

C13_Witness ==
    /\ call.op = "check_all_limits"
    /\ prev # None
    /\ IsSet(config.max_runtime_ms)
    /\ Val(prev).reason = "WITHIN_LIMITS"
    /\ Val(ret).reason = "WITHIN_LIMITS"
    /\ Val(ret).details.runtime_ms > Val(prev).details.runtime_ms

\* C13 (as stated): on a guard with a valid configuration, two successive
\* check_all_limits calls with no counter mutation between them return the
\* same should_terminate and the same reason.
C13_SuccessiveChecksAgree ==
    (ValidConfig /\ call.op = "check_all_limits" /\ prev # None) =>
        /\ Val(ret).should_terminate = Val(prev).should_terminate
        /\ Val(ret).reason = Val(prev).reason

\* C14: on a guard with max_cost_usd = c, once the positive amounts reported
\* to add_cost sum, as numbers, to c or more, check_cost_limit returns a
\* terminating outcome with reason COST_LIMIT_EXCEEDED: the rounding of the
\* float additions never keeps the trip from happening.
C14_ExactSumTrips ==
    (/\ call.op = "check_cost_limit"
     /\ IsSet(config.max_cost_usd)
     /\ hist.cost >= Val(config.max_cost_usd)) =>
        Trips(ret, "COST_LIMIT_EXCEEDED")

\* C15: get_stats changes no field of the guard and always returns a
\* snapshot holding the execution_id, the three counters, the time elapsed
\* since construction and the four ceilings as configured, an unset ceiling
\* being reported as None.
C15_GetStatsReadOnly ==
    [][call'.op = "get_stats" =>
         /\ UNCHANGED guard_fields
         /\ ret' # None
         /\ LET stats == Val(ret')
            IN  /\ DOMAIN stats = {"execution_id", "step_count", "runtime_ms",
                                   "token_count", "cost_usd", "limits"}
                /\ stats.execution_id = execution_id
                /\ stats.step_count = step_count
                /\ stats.token_count = token_count
                /\ stats.cost_usd = cost_tracker
                /\ stats.runtime_ms = clock' - start_time
                /\ DOMAIN stats.limits = {"max_steps", "max_runtime_ms",
                                          "max_tokens", "max_cost_usd"}
                /\ stats.limits.max_steps = config.max_steps
                /\ stats.limits.max_runtime_ms = config.max_runtime_ms
                /\ stats.limits.max_tokens = config.max_tokens
                /\ stats.limits.max_cost_usd = config.max_cost_usd]_vars

C15_Witness ==
    /\ call.op = "get_stats"
    /\ step_count > 0 /\ token_count > 0 /\ cost_tracker > 0
    /\ Val(ret).step_count = step_count
    /\ Val(ret).runtime_ms = MaxElapsed
    /\ Val(ret).limits.max_steps = Some(MaxLimit)
    /\ Val(ret).limits.max_tokens = None
    /\ Val(ret).limits.max_cost_usd = None

\* C16: the monitor loop fires exactly once.  A tick whose check_all_limits
\* signals termination requests the cancellation of the execution once, emits
\* one termination notification carrying the outcome and enters Terminating;
\* from Terminating the loop never ticks again and nothing, a cancellation of
\* the loop included, changes what it has done.
C16_FiresExactlyOnce ==
    /\ [](/\ monitor.cancellations <= 1
          /\ Len(monitor.notifications) <= 1
          /\ monitor.state = "Terminating" <=> monitor.cancellations = 1
          /\ monitor.state = "Terminating" <=> Len(monitor.notifications) = 1
          /\ monitor.state = "Terminating" =>
                /\ monitor.outcome # None
                /\ Val(monitor.outcome).should_terminate
                /\ monitor.notifications[1] = Notification(Val(monitor.outcome)))
    /\ [][(/\ monitor.state = "Running"
           /\ call'.op = "check_all_limits"
           /\ Val(ret').should_terminate) =>
              /\ monitor'.state = "Terminating"
              /\ monitor'.outcome = ret'
              /\ monitor'.cancellations = 1
              /\ Len(monitor'.notifications) = 1]_vars
    /\ [][monitor.state = "Terminating" =>
              /\ monitor' = monitor
              /\ call'.op # "check_all_limits"]_vars

C16_Witness ==
    /\ monitor.state = "Terminating"
    /\ call.op = "cancel_monitor"
    /\ Len(monitor.notifications) = 1
    /\ monitor.notifications[1].reason = "TOKEN_LIMIT_EXCEEDED"
    /\ StepExceeded

\* C17: a monitor loop that the engine cancels while it is running enters
\* Stopped without an outcome, a cancellation request or a notification, and
\* from Stopped it never ticks, requests or emits anything again, whatever the
\* guard's counters and the clock come to.
C17_StopsSilently ==
    /\ [](monitor.state = "Stopped" =>
             /\ monitor.outcome = None
             /\ monitor.cancellations = 0
             /\ monitor.notifications = << >>)
    /\ [][(monitor.state = "Running" /\ call'.op = "cancel_monitor") =>
              monitor' = [monitor EXCEPT !.state = "Stopped"]]_vars
    /\ [][monitor.state = "Stopped" =>
              /\ monitor' = monitor
              /\ call'.op # "check_all_limits"]_vars

C17_Witness ==
    /\ monitor.state = "Stopped"
    /\ monitor.notifications = << >>
    /\ monitor.cancellations = 0
    /\ config = [max_steps |-> Some(MaxLimit), max_runtime_ms |-> Some(MaxLimit),
                 max_tokens |-> Some(MaxLimit), max_cost_usd |-> Some(MaxLimit)]
    /\ StepExceeded /\ RuntimeExceeded /\ TokenExceeded /\ CostExceeded

\* C18: on a guard with a valid configuration, every WITHIN_LIMITS outcome of
\* check_all_limits reports details within the ceilings that are set:
\* runtime_ms below max_runtime_ms, token_count below max_tokens, cost_usd
\* below max_cost_usd and step_count at most max_steps, also when time
\* advances while the check runs.
C18_WithinLimitsDetailsWithinCeilings ==
    (/\ ValidConfig
     /\ call.op = "check_all_limits"
     /\ Val(ret).reason = "WITHIN_LIMITS") =>
        LET details == Val(ret).details
        IN  /\ IsSet(config.max_steps) => details.step_count <= Val(config.max_steps)
            /\ IsSet(config.max_runtime_ms) => details.runtime_ms < Val(config.max_runtime_ms)
            /\ IsSet(config.max_tokens) => details.token_count < Val(config.max_tokens)
            /\ IsSet(config.max_cost_usd) => details.cost_usd < Val(config.max_cost_usd)

\* C19: a check_all_limits call made when none of the four limits is exceeded
\* returns should_terminate = FALSE, reason WITHIN_LIMITS and details holding
\* exactly the guard's step_count, token_count and cost_tracker at the time
\* of the call and, as runtime_ms, the time elapsed since construction.
C19_WithinLimitsSnapshot ==
    [][(/\ call'.op = "check_all_limits"
        /\ ~(StepExceeded \/ RuntimeExceeded \/ TokenExceeded \/ CostExceeded)) =>
          ret' = Some([should_terminate |-> FALSE,
                       reason |-> "WITHIN_LIMITS",
                       details |-> [step_count |-> step_count,
                                    runtime_ms |-> clock' - start_time,
                                    token_count |-> token_count,
                                    cost_usd |-> cost_tracker]])]_vars

C19_Witness ==
    /\ call.op = "check_all_limits"
    /\ config = [max_steps |-> Some(MaxLimit), max_runtime_ms |-> Some(MaxLimit),
                 max_tokens |-> Some(MaxLimit), max_cost_usd |-> Some(MaxLimit)]
    /\ Val(ret).reason = "WITHIN_LIMITS"
    /\ Val(ret).details.step_count = MaxLimit
    /\ Val(ret).details.token_count = MaxLimit - 1
    /\ Val(ret).details.cost_usd = MaxLimit - 1
    /\ Val(ret).details.runtime_ms = MaxLimit - 1

Abs(x) == IF x >= 0 THEN x ELSE 0 - x

\* C20 (as amended): increment_step raises step_count by exactly 1 and
\* add_tokens(n) with n > 0 raises token_count by exactly n; add_cost(a) with
\* a > 0 raises cost_tracker by a up to the rounding of one float addition:
\* the new value is not below the old one, is exactly cost_tracker + a when
\* that sum fits the mantissa, and otherwise differs from it by at most the
\* sum times 2^-MantissaBits.  Each leaves the other two counters,
\* execution_id, start_time and the configuration unchanged, so that
\* step_count is always the number of increment_step calls and token_count
\* the sum of the positive amounts passed to add_tokens.
C20_RecordOpsExactUpToRounding ==
    /\ [](step_count = hist.steps /\ token_count = hist.tokens)
    /\ [][/\ call'.op = "increment_step" =>
               /\ step_count' = step_count + 1
               /\ UNCHANGED <<execution_id, config, start_time, token_count, cost_tracker>>
          /\ (call'.op = "add_tokens" /\ call'.args[1] > 0) =>
               /\ token_count' = token_count + call'.args[1]
               /\ UNCHANGED <<execution_id, config, start_time, step_count, cost_tracker>>
          /\ (call'.op = "add_cost" /\ call'.args[1] > 0) =>
               /\ LET exact == cost_tracker + call'.args[1]
                  IN  /\ cost_tracker' >= cost_tracker
                      /\ exact < Pow2(MantissaBits) => cost_tracker' = exact
                      /\ Abs(cost_tracker' - exact) * Pow2(MantissaBits) <= exact
               /\ UNCHANGED <<execution_id, config, start_time, step_count, token_count>>]_vars

C20_Witness ==
    /\ call.op = "add_cost"
    /\ call.args[1] > 0
    /\ cost_tracker # hist.cost
    /\ step_count = hist.steps /\ step_count > 0
    /\ token_count = hist.tokens /\ token_count > 0

\* C20 (as stated): add_cost(a) with a > 0 raises cost_tracker by exactly a,
\* as increment_step raises step_count by exactly 1 and add_tokens(n) with
\* n > 0 raises token_count by exactly n, each leaving every other field of
\* the guard unchanged.
C20_RecordOpsExact ==
    [][/\ call'.op = "increment_step" =>
            /\ step_count' = step_count + 1
            /\ UNCHANGED <<execution_id, config, start_time, token_count, cost_tracker>>
       /\ (call'.op = "add_tokens" /\ call'.args[1] > 0) =>
            /\ token_count' = token_count + call'.args[1]
            /\ UNCHANGED <<execution_id, config, start_time, step_count, cost_tracker>>
       /\ (call'.op = "add_cost" /\ call'.args[1] > 0) =>
            /\ cost_tracker' = cost_tracker + call'.args[1]
            /\ UNCHANGED <<execution_id, config, start_time, step_count, token_count>>]_vars

\* The priority of an outcome: WITHIN_LIMITS < COST < TOKEN < TIME < STEP.
Rank(reason) ==
    CASE reason = "WITHIN_LIMITS" -> 0
      [] reason = "COST_LIMIT_EXCEEDED" -> 1
      [] reason = "TOKEN_LIMIT_EXCEEDED" -> 2
      [] reason = "TIME_LIMIT_EXCEEDED" -> 3
      [] reason = "STEP_LIMIT_EXCEEDED" -> 4

\* C21: on a guard with a valid configuration, of two check_all_limits calls
\* the later one never returns an outcome of lower rank than the earlier one,
\* and once should_terminate = TRUE has been returned the next
\* check_all_limits returns it too (here: two calls with no record operation
\* between them).
C21_TerminationLatched ==
    (ValidConfig /\ call.op = "check_all_limits" /\ prev # None) =>
        /\ Rank(Val(ret).reason) >= Rank(Val(prev).reason)
        /\ Val(prev).should_terminate => Val(ret).should_terminate

\* C22: a runaway execution is eventually stopped.  Under a driver that
\* keeps calling increment_step and then check_all_limits, on a guard with
\* max_steps = k a check eventually returns should_terminate = TRUE, and no
\* check after the (k+1)-th increment_step is passed; on a guard with
\* max_tokens = t the same holds, with t in place of k, as long as every
\* step reports at least one token.
C22_RunawayIsStopped ==
    /\ IsSet(config.max_steps) => <>(engine.pc = "fired")
    /\ IsSet(config.max_tokens) => <>(engine.pc = "fired" \/ engine.starved)
    /\ [](engine.pc = "fired" =>
             /\ engine.result # None
             /\ Val(engine.result).should_terminate)
    /\ []((IsSet(config.max_steps) /\ Val(config.max_steps) >= 0) =>
             /\ engine.completed <= Val(config.max_steps) + 1
             /\ engine.pc = "step" => engine.completed <= Val(config.max_steps))
    /\ []((IsSet(config.max_tokens) /\ ~engine.starved) =>
             /\ engine.completed <= Val(config.max_tokens) + 1
             /\ engine.pc = "step" => engine.completed <= Val(config.max_tokens))

C22_Witness ==
    /\ engine.pc = "fired"
    /\ config.max_steps = Some(MaxLimit)
    /\ config.max_tokens = None
    /\ engine.completed = MaxLimit + 1
    /\ call.op = "check_all_limits"
    /\ Trips(ret, "STEP_LIMIT_EXCEEDED")

====
